---- MODULE Spec2Model ----
(***************************************************************************)
(* Model of src/idle_usage_checker.py: class Idle_Usage_Checker.           *)
(*                                                                         *)
(* The program is one thread.  begin() is a while loop; each iteration     *)
(* calls presence(), then (user absent) resource_utilization(), then       *)
(* either send_notification() or sleep_mode().  The model follows the      *)
(* control flow with a program counter:                                    *)
(*                                                                         *)
(*   "main"      main() has been entered, line 261                         *)
(*   "init"      Idle_Usage_Checker(debug=debug) is being built, line 290  *)
(*   "loop"      the while test of begin(), line 85                        *)
(*   "presence"  inside the for loop of presence(), lines 213-220          *)
(*   "resource"  inside the while loop of resource_utilization(), 143-172  *)
(*   "notify"    send_notification() has been called, line 92              *)
(*   "sleep"     sleep_mode() has been called, lines 108 and 112           *)
(*   "done"      the process has exited (sys.exit or an uncaught error)    *)
(*                                                                         *)
(* The values the environment supplies are drawn nondeterministically:     *)
(* the configuration dictionary (config.py is not part of src/), the       *)
(* -d flag, each reading of win32api.GetLastInputInfo(), each psutil       *)
(* sample, and whether an external call raises.                            *)
(*                                                                         *)
(* The durations handed to time.sleep inside the two probes                *)
(* (PRESENCE_WAIT_TIME, RESOURCE_CHECK_INTERVAL) change no program state   *)
(* and are not modelled.  Configuration values are natural numbers.        *)
(***************************************************************************)
EXTENDS Integers, Sequences, FiniteSets, TLC

(* ---- bounds of the model ---------------------------------------------- *)
MaxRunningDuration == 1
MaxSleepModeLength == 2
MaxResourceChecks == 2
MaxMaxResourceChecks == 4
MaxMaxPassedChecks == 2
MaxPresenceCheckCount == 1
\* the count of loop passes is kept up to this value and no further
MaxIterationsCounted == 8
\* the most options on the command line
MaxOpts == 2

(* ---- values the debug branch of __init__ writes into config ----------- *)
DebugRunningDuration == 30
DebugSleepModeLength == 5
DebugCpuThreshold == 10
DebugPresenceCheckCount == 3

(* ---- input domains ----------------------------------------------------- *)
\* CPU_THRESHOLD / MEMORY_THRESHOLD of config.py
CpuThresholds == {20}
MemoryThresholds == {50}
\* (cpu, memory) pairs psutil may report: idle under every threshold, busy by
\* CPU only under the debug threshold, busy by CPU, busy by memory.
Samples == { <<9, 49>>, <<10, 49>>, <<20, 49>>, <<9, 50>> }
\* values win32api.GetLastInputInfo() may return
Markers == {0, 1}
\* the options cmd_line_arg_handler() looks for in sys.argv
Flags == { "-h", "--help", "-v", "--version", "-d", "--debug" }

VARIABLES
    opts,                          \* local of cmd_line_arg_handler()
    config,                        \* the config dictionary (without ELAPSED_TIME)
    debug,                         \* self.debug
    elapsed_time,                  \* config["ELAPSED_TIME"]
    total_passed_resource_checks,  \* local of begin()
    last_action,                   \* self.last_action
    pc,                            \* control location
    poll,                          \* polls done by the running presence() call
    resource_counter,              \* local of resource_utilization()
    total_checks,                  \* local of resource_utilization()
    votes,                         \* the votes of the last resource_utilization() call
    has_sample,                    \* self.cpu / self.memory exist
    cpu,                           \* self.cpu
    memory,                        \* self.memory
    present,                       \* what presence() returned in this iteration
    busy,                          \* what resource_utilization() returned
    branch,                        \* the branch of its exit chain that returned
    iterations,                    \* passes of the while loop of begin() begun
    notifications,                 \* calls of send_notification()
    publishes,                     \* calls of client.publish()
    exit_code,                     \* process exit status, -1 while running
    reason                         \* how the process ended

vars == << opts, config, debug, elapsed_time, total_passed_resource_checks,
           last_action, pc, poll, resource_counter, total_checks, votes,
           has_sample, cpu, memory, present, busy, branch, iterations,
           notifications, publishes, exit_code, reason >>

(* ---- configuration ------------------------------------------------------ *)
Configs ==
    [ RUNNING_DURATION     : 0..MaxRunningDuration,
      SLEEP_MODE_LENGTH    : 0..MaxSleepModeLength,
      CPU_THRESHOLD        : CpuThresholds,
      MEMORY_THRESHOLD     : MemoryThresholds,
      RESOURCE_CHECKS      : 0..MaxResourceChecks,
      MAX_RESOURCE_CHECKS  : 0..MaxMaxResourceChecks,
      MAX_PASSED_CHECKS    : 0..MaxMaxPassedChecks,
      PRESENCE_CHECK_COUNT : 0..MaxPresenceCheckCount ]

\* __init__, lines 53-61: the debug branch overwrites part of config
DebugOverride(c) ==
    [ c EXCEPT !.RUNNING_DURATION     = DebugRunningDuration,
               !.SLEEP_MODE_LENGTH    = DebugSleepModeLength,
               !.CPU_THRESHOLD        = DebugCpuThreshold,
               !.PRESENCE_CHECK_COUNT = DebugPresenceCheckCount ]

\* the process at the entry of main(): config is what config.py holds, no
\* checker object exists yet (last_action = -1: no marker has been read)
Init ==
    /\ opts \in { o \in SUBSET Flags : Cardinality(o) <= MaxOpts }
    /\ config \in Configs
    /\ debug = FALSE
    /\ elapsed_time = 0
    /\ total_passed_resource_checks = 0
    /\ last_action = -1
    /\ pc = "main"
    /\ poll = 0
    /\ resource_counter = 0
    /\ total_checks = 0
    /\ votes = << >>
    /\ has_sample = FALSE
    /\ cpu = 0
    /\ memory = 0
    /\ present = "none"
    /\ busy = "none"
    /\ branch = "none"
    /\ iterations = 0
    /\ notifications = 0
    /\ publishes = 0
    /\ exit_code = -1
    /\ reason = "running"

(* ---- process exit ------------------------------------------------------- *)
\* close_program(): log and sys.exit(), exit status 0
close_program(message) ==
    /\ pc' = "done"
    /\ exit_code' = 0
    /\ reason' = message

\* an exception that is caught and dropped, the while loop going on
Uncaught_Swallowed(what) ==
    /\ pc' = "loop"
    /\ exit_code' = exit_code
    /\ reason' = what

\* an exception nobody catches: traceback, exit status 1
Uncaught(what) ==
    /\ pc' = "done"
    /\ exit_code' = 1
    /\ reason' = what

(* ---- main() and __init__ ------------------------------------------------- *)
\* cmd_line_arg_handler(), lines 258-286, and line 288
CmdLineArgHandler ==
    /\ pc = "main"
    /\ IF "-h" \in opts \/ "--help" \in opts
       THEN /\ pc' = "done"
            /\ exit_code' = 0
            /\ reason' = "help"
            /\ UNCHANGED debug
       ELSE IF "-v" \in opts \/ "--version" \in opts
       THEN /\ pc' = "done"
            /\ exit_code' = 0
            /\ reason' = "version"
            /\ UNCHANGED debug
       ELSE /\ debug' = ("-d" \in opts \/ "--debug" \in opts)
            /\ pc' = "init"
            /\ UNCHANGED << exit_code, reason >>
    /\ opts' = {}
    /\ UNCHANGED << config, iterations, elapsed_time,
                    total_passed_resource_checks, last_action, poll,
                    resource_counter, total_checks, votes, has_sample, cpu,
                    memory, present, busy, branch, notifications, publishes >>

\* __init__, lines 49-64: the logger is set up, the first marker is read and
\* the debug values are written into config; begin() is entered, lines 79-83
Construct ==
    /\ pc = "init"
    /\ \E m \in Markers : last_action' = m
    /\ config' = IF debug THEN DebugOverride(config) ELSE config
    /\ pc' = "loop"
    /\ UNCHANGED << opts, debug, iterations, elapsed_time,
                    total_passed_resource_checks, poll, resource_counter,
                    total_checks, votes, has_sample, cpu, memory, present,
                    busy, branch, notifications, publishes, exit_code,
                    reason >>

\* __init__ raises: logging.FileHandler cannot open the log file (line 37),
\* or win32api.GetLastInputInfo() raises (line 51)
ConstructError ==
    /\ pc = "init"
    /\ \/ Uncaught("log file error")
       \/ Uncaught("first marker error")
    /\ UNCHANGED << opts, config, debug, iterations, elapsed_time,
                    total_passed_resource_checks, last_action, poll,
                    resource_counter, total_checks, votes, has_sample, cpu,
                    memory, present, busy, branch, notifications, publishes >>

(* ---- begin(): the while test -------------------------------------------- *)
\* the while test letting one more second through
LoopGuard_OffByOne == elapsed_time <= config.RUNNING_DURATION + 1

\* line 85
LoopGuard == elapsed_time <= config.RUNNING_DURATION

\* line 85 true, lines 86-88: presence() is called
BeginIteration ==
    /\ pc = "loop"
    /\ LoopGuard
    /\ pc' = "presence"
    /\ poll' = 0
    /\ present' = "none"
    /\ busy' = "none"
    /\ branch' = "none"
    /\ iterations' = IF iterations < MaxIterationsCounted
                      THEN iterations + 1 ELSE iterations
    /\ UNCHANGED << opts, config, debug, elapsed_time,
                    total_passed_resource_checks, last_action,
                    resource_counter, total_checks, votes, has_sample, cpu,
                    memory, notifications, publishes, exit_code, reason >>

\* line 85 false, line 114
LoopExit ==
    /\ pc = "loop"
    /\ ~LoopGuard
    /\ close_program("Maximum running duration reached.")
    /\ UNCHANGED << opts, config, debug, iterations, elapsed_time, total_passed_resource_checks,
                    last_action, poll, resource_counter, total_checks, votes,
                    has_sample, cpu, memory, present, busy, branch, notifications,
                    publishes >>

(* ---- sleep_mode() -------------------------------------------------------- *)
\* sleep_mode() that sleeps without adding to ELAPSED_TIME
SleepMode_NoAdd ==
    /\ pc = "sleep"
    /\ pc' = "loop"
    /\ UNCHANGED << opts, config, debug, iterations, elapsed_time, total_passed_resource_checks,
                    last_action, poll, resource_counter, total_checks, votes,
                    has_sample, cpu, memory, present, busy, branch, notifications,
                    publishes, exit_code, reason >>

\* lines 69-77
SleepMode ==
    /\ pc = "sleep"
    /\ elapsed_time' = elapsed_time + config.SLEEP_MODE_LENGTH
    /\ pc' = "loop"
    /\ UNCHANGED << opts, config, debug, iterations, total_passed_resource_checks, last_action,
                    poll, resource_counter, total_checks, votes, has_sample, cpu,
                    memory, present, busy, branch, notifications, publishes,
                    exit_code, reason >>

(* ---- presence() ----------------------------------------------------------- *)
\* the else branch of begin() without its reset
PresenceDetected_NoReset ==
    /\ pc' = "sleep"
    /\ UNCHANGED total_passed_resource_checks

\* begin(), lines 109-112: presence() returned True
PresenceDetected ==
    /\ total_passed_resource_checks' = 0
    /\ pc' = "sleep"

\* a pass of the for loop that reports the change and keeps the old reference
PresencePoll_KeepsReference ==
    /\ pc = "presence"
    /\ poll < config.PRESENCE_CHECK_COUNT
    /\ \E new_action \in Markers :
        IF new_action # last_action
        THEN /\ present' = "yes"
             /\ PresenceDetected
             /\ UNCHANGED << last_action, poll >>
        ELSE /\ poll' = poll + 1
             /\ UNCHANGED << last_action, present,
                             total_passed_resource_checks, pc >>
    /\ UNCHANGED << opts, config, debug, iterations, elapsed_time, resource_counter,
                    total_checks, votes, has_sample, cpu, memory, busy, branch,
                    notifications, publishes, exit_code, reason >>

\* one pass of the for loop, lines 215-220; on a change presence() returns
\* True and begin() runs lines 109-112 up to the call of sleep_mode()
PresencePoll ==
    /\ pc = "presence"
    /\ poll < config.PRESENCE_CHECK_COUNT
    /\ \E new_action \in Markers :
        IF new_action # last_action
        THEN /\ last_action' = new_action
             /\ present' = "yes"
             /\ PresenceDetected
             /\ UNCHANGED poll
        ELSE /\ poll' = poll + 1
             /\ UNCHANGED << last_action, present,
                             total_passed_resource_checks, pc >>
    /\ UNCHANGED << opts, config, debug, iterations, elapsed_time, resource_counter,
                    total_checks, votes, has_sample, cpu, memory, busy, branch,
                    notifications, publishes, exit_code, reason >>

\* the for loop giving up one poll early
PresenceExhausted_OneShort ==
    /\ pc = "presence"
    /\ poll + 1 >= config.PRESENCE_CHECK_COUNT
    /\ present' = "no"
    /\ resource_counter' = 0
    /\ total_checks' = 0
    /\ votes' = << >>
    /\ pc' = "resource"
    /\ UNCHANGED << opts, config, debug, iterations, elapsed_time, total_passed_resource_checks,
                    last_action, poll, has_sample, cpu, memory, busy, branch,
                    notifications, publishes, exit_code, reason >>

\* the for loop is exhausted, lines 222-223: presence() returns False and
\* begin() calls resource_utilization(), lines 139-141
PresenceExhausted ==
    /\ pc = "presence"
    /\ poll >= config.PRESENCE_CHECK_COUNT
    /\ present' = "no"
    /\ resource_counter' = 0
    /\ total_checks' = 0
    /\ votes' = << >>
    /\ pc' = "resource"
    /\ UNCHANGED << opts, config, debug, iterations, elapsed_time, total_passed_resource_checks,
                    last_action, poll, has_sample, cpu, memory, busy, branch,
                    notifications, publishes, exit_code, reason >>

\* win32api.GetLastInputInfo() raises
PresenceError ==
    /\ pc = "presence"
    /\ poll < config.PRESENCE_CHECK_COUNT
    /\ Uncaught("presence probe error")
    /\ UNCHANGED << opts, config, debug, iterations, elapsed_time, total_passed_resource_checks,
                    last_action, poll, resource_counter, total_checks, votes,
                    has_sample, cpu, memory, present, busy, branch, notifications,
                    publishes >>

(* ---- resource_utilization() ------------------------------------------------ *)
\* the while condition without its cap on total_checks
SamplingGuard_NoCap(rc, tc) ==
    /\ rc < config.RESOURCE_CHECKS
    /\ rc > -config.RESOURCE_CHECKS

\* the while condition with <= and >= on the counter
SamplingGuard_Inclusive(rc, tc) ==
    /\ rc <= config.RESOURCE_CHECKS
    /\ rc >= -config.RESOURCE_CHECKS
    /\ tc < config.MAX_RESOURCE_CHECKS

\* the while condition, lines 143-147
SamplingGuard(rc, tc) ==
    /\ rc < config.RESOURCE_CHECKS
    /\ rc > -config.RESOURCE_CHECKS
    /\ tc < config.MAX_RESOURCE_CHECKS

\* the comparison of lines 152-155
HeavilyUtilized(c, m) ==
    c >= config.CPU_THRESHOLD \/ m >= config.MEMORY_THRESHOLD

\* a busy vote that is counted twice
Vote_ByTwo(rc, c, m) == IF HeavilyUtilized(c, m) THEN rc + 2 ELSE rc - 1

\* lines 156-163
Vote(rc, c, m) == IF HeavilyUtilized(c, m) THEN rc + 1 ELSE rc - 1

\* the chain with the cap on total_checks tested first
ExitBranch_CapFirst(rc, tc) ==
    IF tc >= config.MAX_RESOURCE_CHECKS THEN "maximum"
    ELSE IF rc >= config.RESOURCE_CHECKS THEN "failed"
    ELSE IF rc <= -config.RESOURCE_CHECKS THEN "passed"
    ELSE "unknown"

\* the chain with the cap tested before the confirmed-idle test
ExitBranch_IdleLast(rc, tc) ==
    IF rc >= config.RESOURCE_CHECKS THEN "failed"
    ELSE IF tc >= config.MAX_RESOURCE_CHECKS THEN "maximum"
    ELSE IF rc <= -config.RESOURCE_CHECKS THEN "passed"
    ELSE "unknown"

\* the chain with > and < on the counter
ExitBranch_Strict(rc, tc) ==
    IF rc > config.RESOURCE_CHECKS THEN "failed"
    ELSE IF rc < -config.RESOURCE_CHECKS THEN "passed"
    ELSE IF tc >= config.MAX_RESOURCE_CHECKS THEN "maximum"
    ELSE "unknown"

\* the if / elif chain after the loop, lines 176-208: which branch is taken
ExitBranch(rc, tc) ==
    IF rc >= config.RESOURCE_CHECKS THEN "failed"
    ELSE IF rc <= -config.RESOURCE_CHECKS THEN "passed"
    ELSE IF tc >= config.MAX_RESOURCE_CHECKS THEN "maximum"
    ELSE "unknown"

\* the value that branch returns
Verdict(rc, tc) == ExitBranch(rc, tc) = "failed"

\* one pass of the while loop, lines 149-163
ResourceSample ==
    /\ pc = "resource"
    /\ SamplingGuard(resource_counter, total_checks)
    /\ \E s \in Samples :
        /\ cpu' = s[1]
        /\ memory' = s[2]
        /\ has_sample' = TRUE
        /\ resource_counter' = Vote(resource_counter, s[1], s[2])
        /\ votes' = Append(votes, HeavilyUtilized(s[1], s[2]))
    /\ total_checks' = total_checks + 1
    /\ UNCHANGED << opts, config, debug, iterations, elapsed_time, total_passed_resource_checks,
                    last_action, pc, poll, present, busy, branch, notifications,
                    publishes, exit_code, reason >>

\* a failed sample that is logged and counted as an idle vote
ResourceError_IdleVote ==
    /\ pc = "resource"
    /\ SamplingGuard(resource_counter, total_checks)
    /\ resource_counter' = resource_counter - 1
    /\ total_checks' = total_checks + 1
    /\ votes' = Append(votes, FALSE)
    /\ reason' = "resource probe error"
    /\ UNCHANGED << opts, config, debug, iterations, elapsed_time,
                    total_passed_resource_checks, last_action, pc, poll,
                    has_sample, cpu, memory, present, busy, branch,
                    notifications, publishes, exit_code >>

\* psutil raises inside update_resources()
ResourceError ==
    /\ pc = "resource"
    /\ SamplingGuard(resource_counter, total_checks)
    /\ Uncaught("resource probe error")
    /\ UNCHANGED << opts, config, debug, iterations, elapsed_time, total_passed_resource_checks,
                    last_action, poll, resource_counter, total_checks, votes,
                    has_sample, cpu, memory, present, busy, branch, notifications,
                    publishes >>

\* the not-busy branch that sleeps whatever the count
PassedCheck_AlwaysSleep ==
    /\ total_passed_resource_checks' = total_passed_resource_checks + 1
    /\ pc' = "sleep"
    /\ UNCHANGED << exit_code, reason, notifications >>

\* the not-busy branch comparing with > instead of >=
PassedCheck_StrictCap ==
    /\ total_passed_resource_checks' = total_passed_resource_checks + 1
    /\ IF total_passed_resource_checks' > config.MAX_PASSED_CHECKS
       THEN close_program("Total passed resource checks have reached allowed maximum.")
       ELSE /\ pc' = "sleep"
            /\ UNCHANGED << exit_code, reason >>
    /\ UNCHANGED notifications

\* begin(), lines 96-108, after resource_utilization() returned False
PassedCheck ==
    /\ total_passed_resource_checks' = total_passed_resource_checks + 1
    /\ IF total_passed_resource_checks' >= config.MAX_PASSED_CHECKS
       THEN close_program("Total passed resource checks have reached allowed maximum.")
       ELSE /\ pc' = "sleep"
            /\ UNCHANGED << exit_code, reason >>
    /\ UNCHANGED notifications

\* begin(), line 92, after resource_utilization() returned True
CallNotifier ==
    /\ pc' = "notify"
    /\ notifications' = notifications + 1
    /\ UNCHANGED << total_passed_resource_checks, exit_code, reason >>

\* begin(), lines 90-108: the branch on what resource_utilization() returned
Dispatch_Inverted(v) == IF v THEN PassedCheck ELSE CallNotifier

Dispatch(v) == IF v THEN CallNotifier ELSE PassedCheck

\* the while loop has ended, lines 174-208, and begin() acts on the result
ResourceExit ==
    /\ pc = "resource"
    /\ ~SamplingGuard(resource_counter, total_checks)
    /\ busy' = IF Verdict(resource_counter, total_checks) THEN "yes" ELSE "no"
    /\ branch' = ExitBranch(resource_counter, total_checks)
    /\ Dispatch(Verdict(resource_counter, total_checks))
    /\ UNCHANGED << opts, config, debug, iterations, elapsed_time, last_action, poll,
                    resource_counter, total_checks, votes, has_sample, cpu, memory,
                    present, publishes >>

(* ---- send_notification() ---------------------------------------------------- *)
\* send_notification() that returns to the loop instead of exiting
NotifyDebug_Returns ==
    /\ pc = "notify"
    /\ debug
    /\ pc' = "loop"
    /\ UNCHANGED << opts, config, debug, iterations, elapsed_time, total_passed_resource_checks,
                    last_action, poll, resource_counter, total_checks, votes,
                    has_sample, cpu, memory, present, busy, branch, notifications,
                    publishes, exit_code, reason >>

\* send_notification() that publishes in debug mode too
NotifyDebug_Publishes ==
    /\ pc = "notify"
    /\ debug
    /\ publishes' = publishes + 1
    /\ close_program("Notification has been sent.")
    /\ UNCHANGED << opts, config, debug, iterations, elapsed_time, total_passed_resource_checks,
                    last_action, poll, resource_counter, total_checks, votes,
                    has_sample, cpu, memory, present, busy, branch, notifications >>

\* debug: lines 228, 230, 252; no client, no publish
NotifyDebug ==
    /\ pc = "notify"
    /\ debug
    /\ close_program("Notification has been sent.")
    /\ UNCHANGED << opts, config, debug, iterations, elapsed_time, total_passed_resource_checks,
                    last_action, poll, resource_counter, total_checks, votes,
                    has_sample, cpu, memory, present, busy, branch, notifications,
                    publishes >>

\* not debug, lines 231-252: boto3.client() is built first and may raise;
\* then the message reads self.cpu and self.memory, an AttributeError
\* without a sample; then publish is called and may raise
NotifyPublish ==
    /\ pc = "notify"
    /\ ~debug
    /\ \/ /\ Uncaught("client error")
          /\ UNCHANGED publishes
       \/ /\ ~has_sample
          /\ Uncaught("AttributeError")
          /\ UNCHANGED publishes
       \/ /\ has_sample
          /\ publishes' = publishes + 1
          /\ \/ close_program("Notification has been sent.")
             \/ Uncaught("publish error")
    /\ UNCHANGED << opts, config, debug, iterations, elapsed_time,
                    total_passed_resource_checks, last_action, poll,
                    resource_counter, total_checks, votes, has_sample, cpu,
                    memory, present, busy, branch, notifications >>

(* ---- the program ------------------------------------------------------------- *)
Next ==
    \/ CmdLineArgHandler
    \/ Construct
    \/ ConstructError
    \/ BeginIteration
    \/ LoopExit
    \/ SleepMode
    \/ PresencePoll
    \/ PresenceExhausted
    \/ PresenceError
    \/ ResourceSample
    \/ ResourceError
    \/ ResourceExit
    \/ NotifyDebug
    \/ NotifyPublish

Spec == Init /\ [][Next]_vars

\* the process is the only thread and is never suspended for good: while a
\* statement can run, one eventually does
FairSpec == Spec /\ WF_vars(Next)

(* ======================================================================== *)
(* Properties                                                               *)
(* ======================================================================== *)

\* the value of resource_counter after the first k votes of v
RECURSIVE CounterAfter(_, _)
CounterAfter(v, k) ==
    IF k = 0 THEN 0
    ELSE CounterAfter(v, k - 1) + (IF v[k] THEN 1 ELSE -1)

\* some prefix of v, of at most MAX_RESOURCE_CHECKS votes, brings the counter
\* to +RESOURCE_CHECKS and no shorter prefix brought it to -RESOURCE_CHECKS
ReachesBusyFirst(v) ==
    \E k \in 0..Len(v) :
        /\ k <= config.MAX_RESOURCE_CHECKS
        /\ CounterAfter(v, k) = config.RESOURCE_CHECKS
        /\ \A j \in 0..(k - 1) : CounterAfter(v, j) # -config.RESOURCE_CHECKS

\* C1: resource_utilization() returns True exactly when some prefix of the
\* votes it was fed drives resource_counter to +RESOURCE_CHECKS before the
\* counter reaches -RESOURCE_CHECKS or total_checks exhausts
\* MAX_RESOURCE_CHECKS (a prefix that reaches +RESOURCE_CHECKS on the very
\* sample that exhausts the cap counts as reaching it); otherwise False.
C1_VerdictMatchesVotes ==
    busy # "none" => ((busy = "yes") <=> ReachesBusyFirst(votes))

\* a True verdict reached on the last allowed sample, after votes that cancel
C1_Witness ==
    /\ busy = "yes"
    /\ Len(votes) = config.MAX_RESOURCE_CHECKS
    /\ Len(votes) > config.RESOURCE_CHECKS
    /\ config.RESOURCE_CHECKS >= 1

\* C2: send_notification() is called at most once per run, and only in an
\* iteration in which presence() returned False and resource_utilization()
\* then returned True.
C2_NotifierOnceWhenAbsentAndBusy ==
    /\ notifications <= 1
    /\ (notifications = 1 \/ pc = "notify") => (present = "no" /\ busy = "yes")
    /\ (present = "yes" \/ busy = "no") => (notifications = 0 /\ pc # "notify")

\* the notifier has been called, in a later iteration, after real sampling
C2_Witness ==
    /\ notifications = 1
    /\ pc = "done"
    /\ elapsed_time > 0
    /\ Len(votes) >= 2

\* C4: a call of resource_utilization() never takes more than
\* MAX_RESOURCE_CHECKS samples.
C4_SamplesBounded ==
    /\ total_checks <= config.MAX_RESOURCE_CHECKS
    /\ Len(votes) = total_checks

\* the cap itself ended the sampling: the counter is strictly inside its band
C4_Witness ==
    /\ busy = "no"
    /\ total_checks = config.MAX_RESOURCE_CHECKS
    /\ total_checks >= 2
    /\ resource_counter < config.RESOURCE_CHECKS
    /\ resource_counter > -config.RESOURCE_CHECKS

\* the run ended because a probe raised
ProbeRaised ==
    reason \in { "presence probe error", "resource probe error" }

\* the process ended in main() or __init__, before begin() was entered
EndedBeforeBegin ==
    reason \in { "help", "version", "log file error", "first marker error" }

\* one of the three ends of the monitor loop has occurred
LoopEnded ==
    \/ elapsed_time > config.RUNNING_DURATION
    \/ total_passed_resource_checks >= config.MAX_PASSED_CHECKS
    \/ (notifications = 1 /\ busy = "yes")

\* SLEEP_MODE_LENGTH as begin() will see it: __init__ writes the debug value
\* over the configured one when -d or --debug is given
SleepLengthInForce ==
    IF debug \/ (pc = "main" /\ ("-d" \in opts \/ "--debug" \in opts))
    THEN DebugSleepModeLength
    ELSE config.SLEEP_MODE_LENGTH

\* C3 as claimed: for every configuration and all probe outcomes begin()
\* terminates, and then the duration is exceeded, the passed checks have
\* reached their maximum, or a busy verdict has triggered the notification.
C3_TerminatesForEveryConfig ==
    /\ <>(pc = "done")
    /\ [](pc = "done" /\ ~EndedBeforeBegin /\ ~ProbeRaised => LoopEnded)

\* C3, amended: a run with SLEEP_MODE_LENGTH > 0 (the value in force once
\* __init__ has applied the debug values) terminates, begin() after at
\* most RUNNING_DURATION / SLEEP_MODE_LENGTH + 1 sleeps (elapsed_time never
\* passes RUNNING_DURATION + SLEEP_MODE_LENGTH); whenever begin() has
\* terminated without a probe raising, the duration is exceeded, the passed
\* checks have reached their maximum, or a busy verdict has triggered the
\* notification.
C3_TerminatesWhenSleepAdvances ==
    /\ (SleepLengthInForce > 0 => <>(pc = "done"))
    /\ [](pc \notin { "main", "init" } /\ config.SLEEP_MODE_LENGTH > 0 =>
            elapsed_time <= config.RUNNING_DURATION + config.SLEEP_MODE_LENGTH)
    /\ [](pc = "done" /\ ~EndedBeforeBegin /\ ~ProbeRaised => LoopEnded)

\* the loop ran out of time after several cycles without any notification
C3_Witness ==
    /\ pc = "done"
    /\ reason = "Maximum running duration reached."
    /\ config.SLEEP_MODE_LENGTH > 0
    /\ elapsed_time > config.SLEEP_MODE_LENGTH
    /\ notifications = 0

\* C5: total_passed_resource_checks is set to 0 in the step in which
\* presence() returns True, which leads straight to sleep_mode(); it grows,
\* by exactly 1, only in the step in which resource_utilization() returns
\* False after presence() returned False; no other step changes it.
C5_PassedChecksResetAndIncrement ==
    [][ /\ (present' = "yes" /\ present # "yes") =>
              (total_passed_resource_checks' = 0 /\ pc' = "sleep")
        /\ (total_passed_resource_checks' # total_passed_resource_checks) =>
              \/ (present' = "yes" /\ present # "yes")
              \/ /\ total_passed_resource_checks' = total_passed_resource_checks + 1
                 /\ present = "no"
                 /\ busy = "none"
                 /\ busy' = "no"
      ]_vars

\* presence is detected in an iteration that follows a passed resource check
\* (a sample exists, and a busy verdict would have ended the run)
C5_Witness ==
    /\ present = "yes"
    /\ total_passed_resource_checks = 0
    /\ has_sample
    /\ busy = "none"

\* C6: elapsed_time never decreases and changes only in sleep_mode(), by
\* exactly SLEEP_MODE_LENGTH; once it exceeds RUNNING_DURATION the only step
\* left is the exit of the loop, with no probe, sample or sleep before it.
C6_ElapsedOnlyBySleep ==
    [][ /\ elapsed_time' >= elapsed_time
        /\ (elapsed_time' # elapsed_time) => pc = "sleep"
        /\ (pc = "sleep") =>
              elapsed_time' = elapsed_time + config.SLEEP_MODE_LENGTH
        /\ (elapsed_time > config.RUNNING_DURATION) =>
              /\ pc = "loop"
              /\ pc' = "done"
              /\ exit_code' = 0
              /\ reason' = "Maximum running duration reached."
      ]_vars

\* the duration ended a run in which no notification was ever sent
C6_Witness ==
    /\ pc = "done"
    /\ elapsed_time > config.RUNNING_DURATION
    /\ elapsed_time = 2 * config.SLEEP_MODE_LENGTH
    /\ notifications = 0
    /\ exit_code = 0

\* C7: when a not-busy verdict brings total_passed_resource_checks to
\* MAX_PASSED_CHECKS the run ends in that step with the check-cap message,
\* elapsed_time still within RUNNING_DURATION and unchanged, without
\* sleep_mode(); below the cap the iteration goes to sleep_mode().
C7_CapEndsRunWithoutSleep ==
    [][ (pc = "resource" /\ busy' = "no") =>
          /\ total_passed_resource_checks' = total_passed_resource_checks + 1
          /\ elapsed_time' = elapsed_time
          /\ IF total_passed_resource_checks' >= config.MAX_PASSED_CHECKS
             THEN /\ pc' = "done"
                  /\ exit_code' = 0
                  /\ reason' = "Total passed resource checks have reached allowed maximum."
                  /\ elapsed_time <= config.RUNNING_DURATION
             ELSE pc' = "sleep"
      ]_vars

\* the cap ended the run on a later iteration, within the running duration
C7_Witness ==
    /\ pc = "done"
    /\ reason = "Total passed resource checks have reached allowed maximum."
    /\ total_passed_resource_checks = config.MAX_PASSED_CHECKS
    /\ config.MAX_PASSED_CHECKS >= 2
    /\ elapsed_time > 0
    /\ elapsed_time <= config.RUNNING_DURATION

\* C8 as claimed: the probes run only while elapsed_time <= RUNNING_DURATION
\* and total_passed_resource_checks < MAX_PASSED_CHECKS.
C8_BothGuardsEveryIteration ==
    pc \in { "presence", "resource" } =>
        /\ elapsed_time <= config.RUNNING_DURATION
        /\ total_passed_resource_checks < config.MAX_PASSED_CHECKS

\* C8, amended: the probes run only while elapsed_time <= RUNNING_DURATION,
\* and, when MAX_PASSED_CHECKS >= 1, only while
\* total_passed_resource_checks < MAX_PASSED_CHECKS; the while test reads
\* elapsed_time alone, so with MAX_PASSED_CHECKS = 0 the first iteration runs.
C8_GuardsWhenCapPositive ==
    pc \in { "presence", "resource" } =>
        /\ elapsed_time <= config.RUNNING_DURATION
        /\ (config.MAX_PASSED_CHECKS >= 1 =>
              total_passed_resource_checks < config.MAX_PASSED_CHECKS)

\* an iteration that starts on the last second, one passed check below the cap
C8_Witness ==
    /\ pc = "presence"
    /\ elapsed_time = config.RUNNING_DURATION
    /\ elapsed_time > 0
    /\ config.MAX_PASSED_CHECKS >= 2
    /\ total_passed_resource_checks = config.MAX_PASSED_CHECKS - 1

\* C9: the step in which resource_utilization() returns True calls
\* send_notification(); the only step after it ends the process, and it
\* polls nothing, samples nothing, does not sleep and leaves
\* total_passed_resource_checks and elapsed_time alone.
C9_BusyThenNotifyThenExit ==
    [][ /\ (busy' = "yes" /\ busy # "yes") =>
              (pc' = "notify" /\ notifications' = notifications + 1)
        /\ (busy = "yes") =>
              /\ pc = "notify"
              /\ pc' = "done"
              /\ UNCHANGED << elapsed_time, total_passed_resource_checks,
                              last_action, poll, resource_counter,
                              total_checks, votes, has_sample, cpu, memory,
                              notifications, present, busy, branch >>
      ]_vars

\* a busy verdict, the notification and the exit, after earlier cycles
C9_Witness ==
    /\ busy = "yes"
    /\ pc = "done"
    /\ exit_code = 0
    /\ elapsed_time > 0

\* C10: in debug mode no run ever calls publish, and a run that reached
\* send_notification() ends with "Notification has been sent." and exit
\* status 0; outside debug mode a run that ends with that message has called
\* publish exactly once.
C10_DebugSkipsPublish ==
    /\ debug => publishes = 0
    /\ (debug /\ notifications = 1 /\ pc = "done") =>
          (reason = "Notification has been sent." /\ exit_code = 0)
    /\ (reason = "Notification has been sent.") =>
          /\ exit_code = 0
          /\ notifications = 1
          /\ publishes = IF debug THEN 0 ELSE 1

\* a debug run that went through the notifier
C10_Witness ==
    /\ debug
    /\ reason = "Notification has been sent."
    /\ publishes = 0
    /\ exit_code = 0
    /\ has_sample

\* C11: presence() polls at most PRESENCE_CHECK_COUNT times; it returns True
\* at the first poll that reads a marker different from the reference, with
\* no wait and no poll after it; it returns False exactly after
\* PRESENCE_CHECK_COUNT polls that all read the reference (the reference is
\* first read in __init__ and replaced only when presence() returns True).
C11_PresencePolls ==
    [][ /\ poll' <= config.PRESENCE_CHECK_COUNT
        /\ (pc = "presence" /\ poll' # poll) =>
              /\ poll' = poll + 1
              /\ last_action' = last_action
              /\ present' = "none"
              /\ pc' = "presence"
        /\ (present' = "yes" /\ present # "yes") =>
              /\ pc = "presence"
              /\ poll < config.PRESENCE_CHECK_COUNT
              /\ last_action' # last_action
              /\ poll' = poll
              /\ pc' # "presence"
        /\ (present' = "no" /\ present # "no") =>
              /\ pc = "presence"
              /\ poll = config.PRESENCE_CHECK_COUNT
              /\ last_action' = last_action
              /\ pc' # "presence"
        /\ (pc # "init" /\ last_action' # last_action) => present' = "yes"
      ]_vars

\* presence detected on the second of three polls
C11_Witness ==
    /\ present = "yes"
    /\ poll = 1
    /\ config.PRESENCE_CHECK_COUNT = 3

\* the run ended because an external call raised
ErrorReasons ==
    { "first marker error", "presence probe error", "resource probe error",
      "client error", "publish error", "AttributeError" }

\* C12: once the presence probe (its first reading in __init__ included),
\* the resource probe or the notifier (a client that cannot be built and a
\* failed publish included) has raised, the process has ended with a
\* non-zero status and no step follows: no retry, no probe, no sleep, no
\* publish.
C12_ErrorEndsRun ==
    reason \in ErrorReasons =>
        /\ pc = "done"
        /\ exit_code = 1
        /\ publishes <= 1
        /\ ~ENABLED Next

\* a publish call that failed
C12_Witness ==
    /\ reason = "publish error"
    /\ publishes = 1
    /\ notifications = 1

\* the step in which a resource sample raises
SampleFails == reason = "running" /\ reason' = "resource probe error"

\* C13 as claimed: a failing resource sample is counted as one idle vote
\* and the sampling loop goes on.
C13_FailureIsIdleVote ==
    [][ SampleFails =>
          /\ resource_counter' = resource_counter - 1
          /\ total_checks' = total_checks + 1
          /\ pc' = "resource"
      ]_vars

\* C13, amended: a failing resource sample is not counted as a vote: the
\* exception leaves resource_utilization() and ends the process with
\* status 1, resource_counter and total_checks unchanged and total_checks
\* still below MAX_RESOURCE_CHECKS.
C13_FailureEndsRun ==
    [][ SampleFails =>
          /\ pc = "resource"
          /\ pc' = "done"
          /\ exit_code' = 1
          /\ resource_counter' = resource_counter
          /\ total_checks' = total_checks
          /\ votes' = votes
          /\ total_checks < config.MAX_RESOURCE_CHECKS
      ]_vars

\* a sample failed after an earlier sample of the same call succeeded
C13_Witness ==
    /\ reason = "resource probe error"
    /\ total_checks >= 1
    /\ pc = "done"

\* the counter stands on one of its two bounds after the first k votes of v
OnBound(v, k) ==
    \/ CounterAfter(v, k) = config.RESOURCE_CHECKS
    \/ CounterAfter(v, k) = -config.RESOURCE_CHECKS

\* C14: sampling stops at the first sample after which resource_counter is
\* +RESOURCE_CHECKS or -RESOURCE_CHECKS, so total_checks at return is the
\* index of that sample; when no prefix of the first MAX_RESOURCE_CHECKS
\* votes reaches a bound the call returns False through the failsafe branch
\* with total_checks = MAX_RESOURCE_CHECKS.
C14_StopsAtFirstBound ==
    /\ \A j \in 0..(Len(votes) - 1) : ~OnBound(votes, j)
    /\ busy # "none" =>
          /\ total_checks = Len(votes)
          /\ resource_counter = CounterAfter(votes, Len(votes))
          /\ IF OnBound(votes, Len(votes))
             THEN branch \in { "failed", "passed" }
             ELSE /\ branch = "maximum"
                  /\ busy = "no"
                  /\ total_checks = config.MAX_RESOURCE_CHECKS

\* strictly alternating votes up to the cap, returned through the failsafe
C14_Witness ==
    /\ branch = "maximum"
    /\ votes = << TRUE, FALSE, TRUE, FALSE >>
    /\ config.RESOURCE_CHECKS = 2
    /\ total_checks = 4

\* C15: the exit chain is tested in the order confirmed busy, confirmed
\* idle, failsafe: a counter that reaches +RESOURCE_CHECKS on the sample that
\* exhausts MAX_RESOURCE_CHECKS returns True, one that reaches
\* -RESOURCE_CHECKS on that sample returns False through the confirmed-idle
\* branch.
C15_ExitOrder ==
    (busy # "none" /\ total_checks >= config.MAX_RESOURCE_CHECKS) =>
        /\ (resource_counter >= config.RESOURCE_CHECKS) =>
              (busy = "yes" /\ branch = "failed")
        /\ (/\ resource_counter < config.RESOURCE_CHECKS
            /\ resource_counter <= -config.RESOURCE_CHECKS) =>
              (busy = "no" /\ branch = "passed")

\* the counter reached -RESOURCE_CHECKS on the last allowed sample
C15_Witness ==
    /\ branch = "passed"
    /\ total_checks = config.MAX_RESOURCE_CHECKS
    /\ total_checks > config.RESOURCE_CHECKS
    /\ config.RESOURCE_CHECKS >= 1

\* C16: the fourth branch of the exit chain is never taken: whenever the
\* sampling loop has ended, the counter is on or beyond a bound or
\* total_checks has reached MAX_RESOURCE_CHECKS.
C16_UnknownBranchUnreachable ==
    /\ branch # "unknown"
    /\ (pc = "resource" /\ ~SamplingGuard(resource_counter, total_checks)) =>
          ExitBranch(resource_counter, total_checks) # "unknown"

\* the loop has ended on a bound before the cap
C16_Witness ==
    /\ branch = "passed"
    /\ total_checks < config.MAX_RESOURCE_CHECKS
    /\ total_checks >= 2

\* C17: the steps of presence() and of resource_utilization() leave config
\* and elapsed_time alone, and total_passed_resource_checks changes only in
\* the branch begin() takes on their return value; presence() changes
\* last_action exactly when it returns True (then to the marker just read,
\* which differs from the old one) and not when it returns False;
\* resource_utilization() never changes last_action.
C17_SubProceduresFrame ==
    [][ (pc \in { "presence", "resource" }) =>
          /\ config' = config
          /\ debug' = debug
          /\ elapsed_time' = elapsed_time
          /\ (total_passed_resource_checks' # total_passed_resource_checks) =>
                (present' # present \/ busy' # busy)
          /\ (pc = "resource") => last_action' = last_action
          /\ (pc = "presence") =>
                /\ (last_action' # last_action) <=> (present' = "yes")
                /\ (present' = "yes") => last_action' \in Markers
                /\ (present' = "no") => last_action' = last_action
                /\ UNCHANGED << has_sample, cpu, memory >>
      ]_vars

\* presence() returned True in an iteration after one that sampled, and the
\* reference holds the new marker
C17_Witness ==
    /\ present = "yes"
    /\ last_action = 1
    /\ has_sample
    /\ elapsed_time > 0

\* C18 as claimed: whenever send_notification() has been called, the
\* resource_utilization() call before it took at least one sample and the
\* last sample (self.cpu, self.memory) was a busy vote.
C18_NotificationReportsBusySample ==
    (notifications = 1) =>
        /\ Len(votes) >= 1
        /\ has_sample
        /\ HeavilyUtilized(cpu, memory)

\* C19: with SLEEP_MODE_LENGTH > 0, elapsed_time is a multiple of
\* SLEEP_MODE_LENGTH, never above RUNNING_DURATION + SLEEP_MODE_LENGTH, and
\* the while loop begins at most RUNNING_DURATION \div SLEEP_MODE_LENGTH + 1
\* passes, the pass number being elapsed_time \div SLEEP_MODE_LENGTH + 1.
C19_ElapsedMultipleAndIterationBound ==
    (config.SLEEP_MODE_LENGTH > 0) =>
        /\ elapsed_time % config.SLEEP_MODE_LENGTH = 0
        /\ elapsed_time <= config.RUNNING_DURATION + config.SLEEP_MODE_LENGTH
        /\ iterations <=
              (config.RUNNING_DURATION \div config.SLEEP_MODE_LENGTH) + 1
        /\ iterations < MaxIterationsCounted
        /\ (pc \in { "presence", "resource", "notify", "sleep" }) =>
              iterations = (elapsed_time \div config.SLEEP_MODE_LENGTH) + 1

\* the last allowed pass, begun with elapsed_time equal to RUNNING_DURATION
C19_Witness ==
    /\ pc = "presence"
    /\ config.SLEEP_MODE_LENGTH > 0
    /\ elapsed_time = config.RUNNING_DURATION
    /\ elapsed_time > 0
    /\ iterations =
          (config.RUNNING_DURATION \div config.SLEEP_MODE_LENGTH) + 1

\* the absolute value
Abs(n) == IF n < 0 THEN -n ELSE n

\* C20: with RESOURCE_CHECKS >= 1, |resource_counter| <= total_checks and
\* |resource_counter| <= RESOURCE_CHECKS in every state; a True verdict
\* took at least RESOURCE_CHECKS samples; and with
\* 1 <= MAX_RESOURCE_CHECKS < RESOURCE_CHECKS the verdict is never True and
\* send_notification() is never called.
C20_CounterBoundedByChecks ==
    (config.RESOURCE_CHECKS >= 1) =>
        /\ Abs(resource_counter) <= total_checks
        /\ Abs(resource_counter) <= config.RESOURCE_CHECKS
        /\ (busy = "yes") => total_checks >= config.RESOURCE_CHECKS
        /\ (/\ 1 <= config.MAX_RESOURCE_CHECKS
            /\ config.MAX_RESOURCE_CHECKS < config.RESOURCE_CHECKS) =>
              (busy # "yes" /\ notifications = 0 /\ pc # "notify")

\* one busy vote used up a cap of 1 that is below RESOURCE_CHECKS = 2
C20_Witness ==
    /\ busy = "no"
    /\ votes = << TRUE >>
    /\ config.MAX_RESOURCE_CHECKS = 1
    /\ config.RESOURCE_CHECKS = 2

====
